---- MODULE Spec2Model ----
(***************************************************************************)
(* Notes manager: the record model (notebook/models.py), the storage       *)
(* engine (notebook/storage.py) and the command layer                      *)
(* (notebook/commands.py), modelled as a state machine over the backing    *)
(* file.                                                                   *)
(*                                                                         *)
(* Text is a sequence of one-character strings, so that str.lower() and    *)
(* the substring test are computed, not assumed.  An optional argument is  *)
(* a set: {} is Python's None, {v} is the value v.  A timestamp is a tick  *)
(* of the clock (isoformat strings of one clock compare as the ticks do).  *)
(***************************************************************************)
EXTENDS Integers, Sequences, FiniteSets, TLC

VARIABLES
    file,    \* the backing file: absent, not parsable, or a JSON array
    now,     \* the last reading of datetime.now()
    left,    \* number of save_notes calls the run may still make
    prev,    \* the backing file as it was before the last call
    call,    \* the last call: operation and arguments
    result,  \* what the last call returned (a text) or raised
    inv      \* the invocations that run side by side, each with its position

vars == <<file, now, left, prev, call, result, inv>>

----------------------------------------------------------------------------
(* Bounds of the model *)

MaxSaves == 3
MaxClock == 2
TicksPerDay == 2

----------------------------------------------------------------------------
(* Text *)

UpperAlpha ==
    <<"A","B","C","D","E","F","G","H","I","J","K","L","M",
      "N","O","P","Q","R","S","T","U","V","W","X","Y","Z">>

LowerAlpha ==
    <<"a","b","c","d","e","f","g","h","i","j","k","l","m",
      "n","o","p","q","r","s","t","u","v","w","x","y","z">>

LowerChar(c) ==
    IF \E i \in DOMAIN UpperAlpha : UpperAlpha[i] = c
    THEN LowerAlpha[CHOOSE i \in DOMAIN UpperAlpha : UpperAlpha[i] = c]
    ELSE c

\* str.lower()
Lower(s) == [i \in DOMAIN s |-> LowerChar(s[i])]

\* Python's `a in b` on strings
Contains(b, a) ==
    \E k \in 0..(Len(b) - Len(a)) :
        \A i \in 1..Len(a) : b[k + i] = a[i]

\* Optional values: None and a given value
None == {}
Some(v) == {v}
Val(o) == CHOOSE v \in o : TRUE

\* Python truthiness of an optional string or list: not None and not empty
Truthy(o) == o # None /\ Val(o) # <<>>

\* Outcome of a computation that may raise
Ok(v) == [ok |-> TRUE, val |-> v]
Raise(e) == [ok |-> FALSE, exc |-> e]

----------------------------------------------------------------------------
(* models.py: the enumerations, member name |-> value *)

NoteStatus ==
    "ACTIVE"   :> <<"a","c","t","i","v","e">> @@
    "ARCHIVED" :> <<"a","r","c","h","i","v","e","d">>

NotePriority ==
    "LOW"    :> <<"l","o","w">> @@
    "MEDIUM" :> <<"m","e","d","i","u","m">> @@
    "HIGH"   :> <<"h","i","g","h">>

NoteCategory ==
    "WORK"     :> <<"w","o","r","k">> @@
    "PERSONAL" :> <<"p","e","r","s","o","n","a","l">> @@
    "STUDY"    :> <<"s","t","u","d","y">> @@
    "SHOPPING" :> <<"s","h","o","p","p","i","n","g">> @@
    "IDEAS"    :> <<"i","d","e","a","s">> @@
    "OTHER"    :> <<"o","t","h","e","r">>

\* Enum(value): the member with that value, or ValueError
EnumOf(enum, value) ==
    IF \E m \in DOMAIN enum : enum[m] = value
    THEN Ok(CHOOSE m \in DOMAIN enum : enum[m] = value)
    ELSE Raise("ValueError")

IsMember(enum, value) == EnumOf(enum, value).ok

----------------------------------------------------------------------------
(* models.py: Note *)

\* Note.__init__: `tags or []`, `created_at or now()`, `updated_at or now()`;
\* t1 and t2 are the two readings of the clock, in that order.
NoteInit(id, title, content, category, priority, tags, status, created_at, updated_at, t1, t2) ==
    [id         |-> id,
     title      |-> title,
     content    |-> content,
     category   |-> category,
     priority   |-> priority,
     tags       |-> IF Truthy(tags) THEN Val(tags) ELSE <<>>,
     status     |-> status,
     created_at |-> IF created_at # None THEN Val(created_at) ELSE t1,
     updated_at |-> IF updated_at # None THEN Val(updated_at) ELSE t2]

\* Note.to_dict: the enumerations are written as their values
to_dict(note) ==
    [id         |-> note.id,
     title      |-> note.title,
     content    |-> note.content,
     category   |-> NoteCategory[note.category],
     priority   |-> NotePriority[note.priority],
     tags       |-> note.tags,
     status     |-> NoteStatus[note.status],
     created_at |-> note.created_at,
     updated_at |-> note.updated_at]

\* dict.get(key): None when the key is absent
Get(data, key) == IF key \in DOMAIN data THEN Some(data[key]) ELSE None

\* from_dict that passes no timestamps on, so that every note is stamped anew
from_dict_fresh(data, t) ==
    IF {"id", "title", "content", "category", "priority", "status"} \subseteq DOMAIN data
    THEN IF /\ IsMember(NoteCategory, data.category)
            /\ IsMember(NotePriority, data.priority)
            /\ IsMember(NoteStatus, data.status)
         THEN Ok(NoteInit(data.id, data.title, data.content,
                          EnumOf(NoteCategory, data.category).val,
                          EnumOf(NotePriority, data.priority).val,
                          IF "tags" \in DOMAIN data THEN Some(data.tags) ELSE Some(<<>>),
                          EnumOf(NoteStatus, data.status).val, None, None, t, t))
         ELSE Raise("ValueError")
    ELSE Raise("KeyError")

\* Note.from_dict: the arguments are evaluated in the order written, so the
\* first absent key (KeyError) or unrecognized value (ValueError) decides.
from_dict(data, t) ==
    IF "id" \notin DOMAIN data THEN Raise("KeyError")
    ELSE IF "title" \notin DOMAIN data THEN Raise("KeyError")
    ELSE IF "content" \notin DOMAIN data THEN Raise("KeyError")
    ELSE IF "category" \notin DOMAIN data THEN Raise("KeyError")
    ELSE IF ~IsMember(NoteCategory, data.category) THEN Raise("ValueError")
    ELSE IF "priority" \notin DOMAIN data THEN Raise("KeyError")
    ELSE IF ~IsMember(NotePriority, data.priority) THEN Raise("ValueError")
    ELSE IF "status" \notin DOMAIN data THEN Raise("KeyError")
    ELSE IF ~IsMember(NoteStatus, data.status) THEN Raise("ValueError")
    ELSE Ok(NoteInit(data.id, data.title, data.content,
                     EnumOf(NoteCategory, data.category).val,
                     EnumOf(NotePriority, data.priority).val,
                     IF "tags" \in DOMAIN data THEN Some(data.tags) ELSE Some(<<>>),
                     EnumOf(NoteStatus, data.status).val,
                     Get(data, "created_at"), Get(data, "updated_at"), t, t))

\* Note.update putting the note back among the active ones
update_reactivate(note, title, content, category, priority, tags, t) ==
    [note EXCEPT
        !.title      = IF title # None THEN Val(title) ELSE @,
        !.content    = IF content # None THEN Val(content) ELSE @,
        !.category   = IF category # None THEN Val(category) ELSE @,
        !.priority   = IF priority # None THEN Val(priority) ELSE @,
        !.tags       = IF tags # None THEN Val(tags) ELSE @,
        !.status     = "ACTIVE",
        !.updated_at = t]

\* Note.update refreshing created_at along with updated_at
update_created(note, title, content, category, priority, tags, t) ==
    [note EXCEPT
        !.title      = IF title # None THEN Val(title) ELSE @,
        !.content    = IF content # None THEN Val(content) ELSE @,
        !.category   = IF category # None THEN Val(category) ELSE @,
        !.priority   = IF priority # None THEN Val(priority) ELSE @,
        !.tags       = IF tags # None THEN Val(tags) ELSE @,
        !.created_at = t,
        !.updated_at = t]

\* Note.update with `self.tags = tags or []`
update_tags(note, title, content, category, priority, tags, t) ==
    [note EXCEPT
        !.title      = IF title # None THEN Val(title) ELSE @,
        !.content    = IF content # None THEN Val(content) ELSE @,
        !.category   = IF category # None THEN Val(category) ELSE @,
        !.priority   = IF priority # None THEN Val(priority) ELSE @,
        !.tags       = IF Truthy(tags) THEN Val(tags) ELSE <<>>,
        !.updated_at = t]

\* Note.update: only the arguments that are not None are applied; updated_at
\* is always refreshed.
update(note, title, content, category, priority, tags, t) ==
    [note EXCEPT
        !.title      = IF title # None THEN Val(title) ELSE @,
        !.content    = IF content # None THEN Val(content) ELSE @,
        !.category   = IF category # None THEN Val(category) ELSE @,
        !.priority   = IF priority # None THEN Val(priority) ELSE @,
        !.tags       = IF tags # None THEN Val(tags) ELSE @,
        !.updated_at = t]

----------------------------------------------------------------------------
(* storage.py: NoteStorage *)

Absent == [kind |-> "absent", data |-> <<>>]
Garbage == [kind |-> "garbage", data |-> <<>>]
Json(data) == [kind |-> "json", data |-> data]

\* _ensure_file_exists without its os.path.exists test: the empty array is
\* written over whatever the file holds
_ensure_file_exists_always(f) == Json(<<>>)

\* _ensure_file_exists: an absent file is created holding the empty array
_ensure_file_exists(f) == IF f.kind = "absent" THEN Json(<<>>) ELSE f

\* save_notes: the whole file is rewritten with the notes' dictionaries
save_notes(notes) == Json([i \in DOMAIN notes |-> to_dict(notes[i])])

\* The exceptions load_notes catches (storage.py:63)
Caught == {"JSONDecodeError", "KeyError"}

\* The body of the try block of load_notes: json.load, then from_dict on the
\* records in file order; the first record that fails raises.
ParseFile(f, t) ==
    IF f.kind = "garbage" THEN Raise("JSONDecodeError")
    ELSE LET parsed == [i \in DOMAIN f.data |-> from_dict(f.data[i], t)]
             bad == {i \in DOMAIN parsed : ~parsed[i].ok}
         IN  IF bad = {}
             THEN Ok([i \in DOMAIN parsed |-> parsed[i].val])
             ELSE Raise(parsed[CHOOSE i \in bad : \A j \in bad : i <= j].exc)

\* load_notes, on the file as _ensure_file_exists left it: a caught
\* exception gives the empty list, any other propagates.
load_notes(f, t) ==
    LET r == ParseFile(_ensure_file_exists(f), t)
    IN  IF r.ok THEN r
        ELSE IF r.exc \in Caught THEN Ok(<<>>)
        ELSE r

Max(S) == CHOOSE x \in S : \A y \in S : y <= x

\* get_next_id with the `+ 1` forgotten
get_next_id_max(notes) ==
    IF notes = <<>> THEN 1
    ELSE Max({notes[i].id : i \in DOMAIN notes})

\* get_next_id counting the notes in place of taking the largest id
get_next_id_len(notes) == Len(notes) + 1

\* get_next_id, given the notes its own load_notes returned
get_next_id(notes) ==
    IF notes = <<>> THEN 1
    ELSE Max({notes[i].id : i \in DOMAIN notes}) + 1

\* Union of the notes' tags as a set
TagSet(notes) == UNION {{notes[i].tags[k] : k \in DOMAIN notes[i].tags} : i \in DOMAIN notes}

\* Code-point order of the letters: upper case before lower case
CodeOrder == UpperAlpha \o LowerAlpha

CharCode(c) == CHOOSE i \in DOMAIN CodeOrder : CodeOrder[i] = c

\* Python's a < b on strings
StrLess(a, b) ==
    \/ /\ Len(a) < Len(b)
       /\ \A i \in 1..Len(a) : a[i] = b[i]
    \/ \E k \in 1..Len(a) :
          /\ k <= Len(b)
          /\ \A i \in 1..(k - 1) : a[i] = b[i]
          /\ CharCode(a[k]) < CharCode(b[k])

\* sorted(list(S)) for a set of strings
RECURSIVE SortedStrings(_)
SortedStrings(S) ==
    IF S = {} THEN <<>>
    ELSE LET m == CHOOSE x \in S : \A y \in S \ {x} : StrLess(x, y)
         IN  <<m>> \o SortedStrings(S \ {m})

\* get_all_tags with the tags sorted in descending order
get_all_tags_descending(notes) ==
    LET tags == SortedStrings(TagSet(notes))
    IN  [i \in DOMAIN tags |-> tags[Len(tags) + 1 - i]]

\* get_all_tags, given the notes its load_notes returned
get_all_tags(notes) == SortedStrings(TagSet(notes))

----------------------------------------------------------------------------
(* models.py: Note.__str__ *)

ContentLimit == 100

StatusIcon(status) == IF status = "ARCHIVED" THEN "folder" ELSE "memo"

PriorityIcon(priority) ==
    CASE priority = "LOW" -> "down"
      [] priority = "MEDIUM" -> "dot"
      [] priority = "HIGH" -> "up"
      [] OTHER -> "dot"

CategoryIcon(category) ==
    CASE category = "WORK" -> "briefcase"
      [] category = "PERSONAL" -> "person"
      [] category = "STUDY" -> "books"
      [] category = "SHOPPING" -> "cart"
      [] category = "IDEAS" -> "bulb"
      [] OTHER -> "page"

\* ', '.join(tags)
RECURSIVE Join(_)
Join(tags) ==
    IF tags = <<>> THEN <<>>
    ELSE IF Len(tags) = 1 THEN tags[1]
    ELSE tags[1] \o <<",", " ">> \o Join(Tail(tags))

\* strftime("%d.%m.%Y"): the day of the timestamp, its time of day dropped
DateOf(t) == t \div TicksPerDay

Prefix(s, n) == IF Len(s) <= n THEN s ELSE SubSeq(s, 1, n)

\* str(note): the three icons, id and title; the creation date and the tags;
\* the content cut to ContentLimit characters, with a mark when it was cut
Str(note) ==
    [status_icon   |-> StatusIcon(note.status),
     priority_icon |-> PriorityIcon(note.priority),
     category_icon |-> CategoryIcon(note.category),
     id            |-> note.id,
     title         |-> note.title,
     created       |-> DateOf(note.created_at),
     tags_str      |-> IF note.tags # <<>> THEN Some(Join(note.tags)) ELSE None,
     content       |-> Prefix(note.content, ContentLimit),
     ellipsis      |-> Len(note.content) > ContentLimit]

----------------------------------------------------------------------------
(* commands.py: the returned texts *)

NoResult == [raised |-> FALSE, kind |-> "none"]
Raised(e) == [raised |-> TRUE, kind |-> "raised", exc |-> e]

CategoryOrder == <<"WORK", "PERSONAL", "STUDY", "SHOPPING", "IDEAS", "OTHER">>
PriorityOrder == <<"LOW", "MEDIUM", "HIGH">>
StatusOrder == <<"ACTIVE", "ARCHIVED">>

\* "Ошибка: Неверная категория '<value>'. Допустимые значения: ..."
BadCategory(value) ==
    [raised |-> FALSE, kind |-> "bad_category", value |-> value,
     valid |-> [i \in DOMAIN CategoryOrder |-> NoteCategory[CategoryOrder[i]]]]
\* "Ошибка: Неверный приоритет '<value>'. Допустимые значения: low, medium, high"
BadPriority(value) ==
    [raised |-> FALSE, kind |-> "bad_priority", value |-> value,
     valid |-> [i \in DOMAIN PriorityOrder |-> NotePriority[PriorityOrder[i]]]]
\* "Ошибка: Неверный статус '<value>'. Допустимые значения: active, archived"
BadStatus(value) ==
    [raised |-> FALSE, kind |-> "bad_status", value |-> value,
     valid |-> [i \in DOMAIN StatusOrder |-> NoteStatus[StatusOrder[i]]]]
\* "Заметка добавлена (ID: <id>): <title>"
Added(id, title) == [raised |-> FALSE, kind |-> "added", id |-> id, title |-> title]
\* The wording of a returned text: the literal of the f-string (Latin
\* letters standing for the Cyrillic ones) and the value put in its braces
Text(fmt, arg) == [fmt |-> fmt, arg |-> arg]
\* "Нет заметок"
NoNotes == [raised |-> FALSE, kind |-> "no_notes", text |-> Text("Net zametok", <<>>)]
\* "Заметки не найдены по заданным критериям"
NoMatch ==
    [raised |-> FALSE, kind |-> "no_match",
     text |-> Text("Zametki ne naideny po zadannym kriteriyam", <<>>)]
\* "=== Найдено заметок: <n> ===" and the notes
Listing(items) == [raised |-> FALSE, kind |-> "listing", count |-> Len(items), items |-> items]
\* search_notes answering an empty match list in the words of list_notes
SearchNone_criteria(term) ==
    [raised |-> FALSE, kind |-> "search_none", term |-> term, text |-> NoMatch.text]
\* "Заметки по запросу '<term>' не найдены"
SearchNone(term) ==
    [raised |-> FALSE, kind |-> "search_none", term |-> term,
     text |-> Text("Zametki po zaprosu '{}' ne naideny", term)]
\* "=== Результаты поиска: '<term>' (<n> найдено) ===" and the notes
SearchHits(term, items) ==
    [raised |-> FALSE, kind |-> "search_hits", term |-> term, count |-> Len(items), items |-> items]
\* "Заметка удалена: #<id> - <title>"
Deleted(id, title) == [raised |-> FALSE, kind |-> "deleted", id |-> id, title |-> title]
\* "Ошибка: Заметка с ID #<id> не найдена"
NotFound(id) == [raised |-> FALSE, kind |-> "not_found", id |-> id]
\* "Заметка #<id> уже в архиве"
AlreadyArchived(id) == [raised |-> FALSE, kind |-> "already_archived", id |-> id]
\* "Заметка архивирована: #<id> - <title>"
Archived(id, title) == [raised |-> FALSE, kind |-> "archived", id |-> id, title |-> title]
\* "Заметка обновлена: #<id> - <title>"
Updated(id, title) == [raised |-> FALSE, kind |-> "updated", id |-> id, title |-> title]
\* "Теги не найдены"
NoTags == [raised |-> FALSE, kind |-> "no_tags", text |-> Text("Tegi ne naideny", <<>>)]
\* "=== Все теги ===" and one line "#<tag> (<n> заметок)" per tag
TagLines(items) == [raised |-> FALSE, kind |-> "tags", items |-> items]

\* The values the storage operations return to their caller
Loaded(notes) == [raised |-> FALSE, kind |-> "loaded", notes |-> notes]
NextIdIs(n) == [raised |-> FALSE, kind |-> "next_id", id |-> n]
AllTagsAre(tags) == [raised |-> FALSE, kind |-> "all_tags", tags |-> tags]

\* What a command leaves behind: the file, the returned text, whether
\* save_notes ran
Out(f, text, saved) == [file |-> f, result |-> text, saved |-> saved]

----------------------------------------------------------------------------
(* commands.py: NoteCommands.  Each command is given the file f and the     *)
(* clock readings it makes: t0 while loading, then t1 (and t2) in order.    *)

\* FirstIndex with -1 for "none", which Python reads as the last element
FirstIndex_last(notes, note_id) ==
    IF \E i \in DOMAIN notes : notes[i].id = note_id
    THEN CHOOSE i \in DOMAIN notes :
            /\ notes[i].id = note_id
            /\ \A j \in 1..(i - 1) : notes[j].id # note_id
    ELSE Len(notes)

\* Index of the first note with that id, 0 when there is none
FirstIndex(notes, note_id) ==
    IF \E i \in DOMAIN notes : notes[i].id = note_id
    THEN CHOOSE i \in DOMAIN notes :
            /\ notes[i].id = note_id
            /\ \A j \in 1..(i - 1) : notes[j].id # note_id
    ELSE 0

\* every note with the id of notes[i] dropped, in place of `del notes[i]`
RemoveAt_all(notes, i) == SelectSeq(notes, LAMBDA n : n.id # notes[i].id)

\* del notes[i]
RemoveAt(notes, i) == SubSeq(notes, 1, i - 1) \o SubSeq(notes, i + 1, Len(notes))

\* The insertion of a sort that puts a note before the notes of equal key
RECURSIVE InsertDesc_ties(_, _)
InsertDesc_ties(sorted, x) ==
    IF sorted = <<>> THEN <<x>>
    ELSE IF Head(sorted).created_at > x.created_at
         THEN <<Head(sorted)>> \o InsertDesc_ties(Tail(sorted), x)
         ELSE <<x>> \o sorted

\* list.sort(key=created_at, reverse=True): stable, newest first.  x goes
\* after every element whose key is not smaller than its own.
RECURSIVE InsertDesc(_, _)
InsertDesc(sorted, x) ==
    IF sorted = <<>> THEN <<x>>
    ELSE IF Head(sorted).created_at >= x.created_at
         THEN <<Head(sorted)>> \o InsertDesc(Tail(sorted), x)
         ELSE <<x>> \o sorted

RECURSIVE SortNewestFirst(_)
SortNewestFirst(notes) ==
    IF notes = <<>> THEN <<>>
    ELSE InsertDesc(SortNewestFirst(SubSeq(notes, 1, Len(notes) - 1)), notes[Len(notes)])

\* notes.insert(0, new_note) in place of append
AppendNote_front(notes, new_note) == <<new_note>> \o notes

\* notes.append(new_note)
AppendNote(notes, new_note) == Append(notes, new_note)

add_note(f, title, content, category, priority, tags, t0, t1, t2) ==
    LET f1 == _ensure_file_exists(f)
        loaded == load_notes(f, t0)
        note_category == EnumOf(NoteCategory, Lower(category))
        note_priority == EnumOf(NotePriority, Lower(priority))
    IN  IF ~loaded.ok THEN Out(f1, Raised(loaded.exc), FALSE)
        ELSE IF ~note_category.ok THEN Out(f1, BadCategory(category), FALSE)
        ELSE IF ~note_priority.ok THEN Out(f1, BadPriority(priority), FALSE)
        ELSE LET new_note ==
                     NoteInit(get_next_id(load_notes(f1, t0).val), title, content,
                              note_category.val, note_priority.val,
                              Some(IF Truthy(tags) THEN Val(tags) ELSE <<>>),
                              "ACTIVE", None, None, t1, t2)
             IN  Out(save_notes(AppendNote(loaded.val, new_note)),
                     Added(new_note.id, title), TRUE)

delete_note(f, note_id, t0) ==
    LET f1 == _ensure_file_exists(f)
        loaded == load_notes(f, t0)
    IN  IF ~loaded.ok THEN Out(f1, Raised(loaded.exc), FALSE)
        ELSE LET i == FirstIndex(loaded.val, note_id)
             IN  IF i = 0 THEN Out(f1, NotFound(note_id), FALSE)
                 ELSE Out(save_notes(RemoveAt(loaded.val, i)),
                          Deleted(note_id, loaded.val[i].title), TRUE)

\* archive_note without its already-archived check
InArchive_never(note) == FALSE

\* `if note.status == NoteStatus.ARCHIVED`
InArchive(note) == note.status = "ARCHIVED"

archive_note(f, note_id, t0, t1) ==
    LET f1 == _ensure_file_exists(f)
        loaded == load_notes(f, t0)
    IN  IF ~loaded.ok THEN Out(f1, Raised(loaded.exc), FALSE)
        ELSE LET i == FirstIndex(loaded.val, note_id)
             IN  IF i = 0 THEN Out(f1, NotFound(note_id), FALSE)
                 ELSE IF InArchive(loaded.val[i])
                      THEN Out(f1, AlreadyArchived(note_id), FALSE)
                 ELSE Out(save_notes([loaded.val EXCEPT ![i].status = "ARCHIVED",
                                                        ![i].updated_at = t1]),
                          Archived(note_id, loaded.val[i].title), TRUE)

edit_note(f, note_id, title, content, category, priority, tags, t0, t1) ==
    LET f1 == _ensure_file_exists(f)
        loaded == load_notes(f, t0)
    IN  IF ~loaded.ok THEN Out(f1, Raised(loaded.exc), FALSE)
        ELSE LET i == FirstIndex(loaded.val, note_id)
                 note_category ==
                     IF Truthy(category)
                     THEN EnumOf(NoteCategory, Lower(Val(category)))
                     ELSE Ok("")
                 note_priority ==
                     IF Truthy(priority)
                     THEN EnumOf(NotePriority, Lower(Val(priority)))
                     ELSE Ok("")
             IN  IF i = 0 THEN Out(f1, NotFound(note_id), FALSE)
                 ELSE IF ~note_category.ok THEN Out(f1, BadCategory(Val(category)), FALSE)
                 ELSE IF ~note_priority.ok THEN Out(f1, BadPriority(Val(priority)), FALSE)
                 ELSE LET note ==
                              update(loaded.val[i], title, content,
                                     IF Truthy(category) THEN Some(note_category.val) ELSE None,
                                     IF Truthy(priority) THEN Some(note_priority.val) ELSE None,
                                     tags, t1)
                      IN  Out(save_notes([loaded.val EXCEPT ![i] = note]),
                              Updated(note_id, note.title), TRUE)

\* The status filter with an absent status read as "active"
ByStatus_active(notes, status, status_filter) ==
    SelectSeq(notes, LAMBDA n : n.status = IF Truthy(status) THEN status_filter ELSE "ACTIVE")

\* The status filter of list_notes: applied when a status is given
ByStatus(notes, status, status_filter) ==
    IF Truthy(status)
    THEN SelectSeq(notes, LAMBDA n : n.status = status_filter)
    ELSE notes

\* One entry of the listing: str(note), and the full text when it was cut
ListItem(note, show_content) ==
    [text |-> Str(note),
     full |-> IF show_content /\ Len(note.content) > ContentLimit
              THEN Some(note.content) ELSE None]

list_notes(f, category, priority, status, show_content, t0) ==
    LET f1 == _ensure_file_exists(f)
        loaded == load_notes(f, t0)
        category_filter ==
            IF Truthy(category) THEN EnumOf(NoteCategory, Lower(Val(category))) ELSE Ok("")
        priority_filter ==
            IF Truthy(priority) THEN EnumOf(NotePriority, Lower(Val(priority))) ELSE Ok("")
        status_filter ==
            IF Truthy(status) THEN EnumOf(NoteStatus, Lower(Val(status))) ELSE Ok("")
    IN  IF ~loaded.ok THEN Out(f1, Raised(loaded.exc), FALSE)
        ELSE IF loaded.val = <<>> THEN Out(f1, NoNotes, FALSE)
        ELSE IF ~category_filter.ok THEN Out(f1, BadCategory(Val(category)), FALSE)
        ELSE IF ~priority_filter.ok THEN Out(f1, BadPriority(Val(priority)), FALSE)
        ELSE IF ~status_filter.ok THEN Out(f1, BadStatus(Val(status)), FALSE)
        ELSE LET by_category ==
                     IF Truthy(category)
                     THEN SelectSeq(loaded.val, LAMBDA n : n.category = category_filter.val)
                     ELSE loaded.val
                 by_priority ==
                     IF Truthy(priority)
                     THEN SelectSeq(by_category, LAMBDA n : n.priority = priority_filter.val)
                     ELSE by_category
                 filtered_notes == ByStatus(by_priority, status, status_filter.val)
                 sorted == SortNewestFirst(filtered_notes)
             IN  IF filtered_notes = <<>> THEN Out(f1, NoMatch, FALSE)
                 ELSE Out(f1, Listing([i \in DOMAIN sorted |->
                                          ListItem(sorted[i], show_content)]), FALSE)

\* The search with its scope argument ignored: every field is looked at
Matches_anywhere(note, search_term, search_in) ==
    \/ Contains(Lower(note.title), search_term)
    \/ Contains(Lower(note.content), search_term)
    \/ \E k \in DOMAIN note.tags : Contains(Lower(note.tags[k]), search_term)

\* The if/elif chain of search_notes for one note
Matches(note, search_term, search_in) ==
    IF search_in \in {"all", "title"} /\ Contains(Lower(note.title), search_term)
    THEN TRUE
    ELSE IF search_in \in {"all", "content"} /\ Contains(Lower(note.content), search_term)
    THEN TRUE
    ELSE IF /\ search_in \in {"all", "tags"}
            /\ \E k \in DOMAIN note.tags : Contains(Lower(note.tags[k]), search_term)
    THEN TRUE
    ELSE FALSE

search_notes(f, term, search_in, t0) ==
    LET f1 == _ensure_file_exists(f)
        loaded == load_notes(f, t0)
        search_term == Lower(term)
    IN  IF ~loaded.ok THEN Out(f1, Raised(loaded.exc), FALSE)
        ELSE IF loaded.val = <<>> THEN Out(f1, NoNotes, FALSE)
        ELSE LET found_notes ==
                     SelectSeq(loaded.val, LAMBDA n : Matches(n, search_term, search_in))
                 sorted == SortNewestFirst(found_notes)
             IN  IF found_notes = <<>> THEN Out(f1, SearchNone(search_term), FALSE)
                 ELSE Out(f1, SearchHits(search_term,
                                         [i \in DOMAIN sorted |-> Str(sorted[i])]), FALSE)

\* `tag in note.tags`
HasTag(note, tag) == \E k \in DOMAIN note.tags : note.tags[k] = tag

list_tags(f, t0) ==
    LET f1 == _ensure_file_exists(f)
        loaded == load_notes(f, t0)
    IN  IF ~loaded.ok THEN Out(f1, Raised(loaded.exc), FALSE)
        ELSE LET tags == get_all_tags(loaded.val)
             IN  IF tags = <<>> THEN Out(f1, NoTags, FALSE)
                 ELSE Out(f1, TagLines([i \in DOMAIN tags |->
                              [tag |-> tags[i],
                               count |-> Len(SelectSeq(load_notes(f1, t0).val,
                                                       LAMBDA n : HasTag(n, tags[i])))]]),
                          FALSE)

----------------------------------------------------------------------------
(* The callers' arguments *)

Ab == <<"A", "b">>
Bc == <<"B", "c">>
cD == <<"c", "D">>
Empty == <<>>
bogus == <<"b", "o", "g", "u", "s">>

\* Add: two well-formed calls (the defaults, and upper-case spellings with a
\* tag), and each of them with a category or a priority outside its enumeration
AddDefault ==
    [title |-> Ab, content |-> Bc, category |-> NoteCategory["OTHER"],
     priority |-> NotePriority["MEDIUM"], tags |-> None]
AddTagged ==
    [title |-> Ab, content |-> Bc, category |-> <<"W", "o", "r", "k">>,
     priority |-> <<"H", "I", "G", "H">>, tags |-> Some(<<cD>>)]
AddArgs ==
    {AddDefault, AddTagged}
    \cup {[a EXCEPT !.category = c] : a \in {AddDefault, AddTagged}, c \in {bogus, Empty}}
    \cup {[AddTagged EXCEPT !.priority = bogus]}

\* Edit: nothing supplied; some fields supplied; all fields supplied; an
\* empty or unrecognized category or priority, alone or beside other fields
EditNothing ==
    [title |-> None, content |-> None, category |-> None, priority |-> None, tags |-> None]
EditArgs ==
    {EditNothing,
     [EditNothing EXCEPT !.title = Some(Empty), !.category = Some(<<"I", "d", "e", "a", "s">>)],
     [EditNothing EXCEPT !.content = Some(cD), !.priority = Some(NotePriority["LOW"]),
                         !.tags = Some(<<>>)],
     [EditNothing EXCEPT !.tags = Some(<<Ab, cD, Ab>>)],
     [EditNothing EXCEPT !.category = Some(bogus)],
     [EditNothing EXCEPT !.category = Some(Empty)],
     [EditNothing EXCEPT !.title = Some(cD), !.priority = Some(bogus)],
     [EditNothing EXCEPT !.priority = Some(Empty)]}

\* List: the defaults, each status spelling, an absent status, and filters
\* inside and outside their enumerations
ListDefault ==
    [category |-> None, priority |-> None, status |-> Some(NoteStatus["ACTIVE"]),
     show_content |-> FALSE]
ListArgs ==
    {ListDefault,
     [ListDefault EXCEPT !.status = Some(NoteStatus["ARCHIVED"])],
     [ListDefault EXCEPT !.status = Some(<<"A", "r", "c", "h", "i", "v", "e", "d">>),
                         !.show_content = TRUE],
     [ListDefault EXCEPT !.status = None],
     [ListDefault EXCEPT !.status = Some(Empty)],
     [ListDefault EXCEPT !.status = Some(bogus)],
     [ListDefault EXCEPT !.category = Some(NoteCategory["WORK"]), !.status = None],
     [ListDefault EXCEPT !.priority = Some(NotePriority["HIGH"])],
     [ListDefault EXCEPT !.category = Some(bogus)],
     [ListDefault EXCEPT !.priority = Some(bogus)]}

SearchTerms == {<<"a">>, <<"C">>}
SearchScopes == {"all", "title", "content", "tags"}

\* The next reading of a clock that does not go backwards
Readings(t) == {u \in {t, t + 1} : u <= MaxClock}

\* Ids a caller may name
Ids == 1..MaxSaves

NoCall == [op |-> "none"]

\* A single caller: no invocations side by side
Alone == <<>>

----------------------------------------------------------------------------
(* The state machine: one action per command, issued one at a time by a     *)
(* single caller, and the caller's return to its prompt                     *)

\* The effect of a command that left `out`, having last read the clock at t
Effect(c, out, t) ==
    /\ call = NoCall
    /\ out.saved => left > 0
    /\ file' = out.file
    /\ result' = out.result
    /\ left' = IF out.saved THEN left - 1 ELSE left
    /\ now' = IF out.saved THEN t ELSE now
    /\ prev' = file
    /\ call' = c
    /\ inv' = inv

Add ==
    \E a \in AddArgs : \E t1 \in Readings(now) : \E t2 \in Readings(t1) :
        Effect([op |-> "add", args |-> a],
               add_note(file, a.title, a.content, a.category, a.priority, a.tags,
                        now, t1, t2),
               t2)

Edit ==
    \E id \in Ids : \E a \in EditArgs : \E t1 \in Readings(now) :
        Effect([op |-> "edit", id |-> id, args |-> a],
               edit_note(file, id, a.title, a.content, a.category, a.priority, a.tags,
                         now, t1),
               t1)

Archive ==
    \E id \in Ids : \E t1 \in Readings(now) :
        Effect([op |-> "archive", id |-> id], archive_note(file, id, now, t1), t1)

Delete ==
    \E id \in Ids :
        Effect([op |-> "delete", id |-> id], delete_note(file, id, now), now)

List ==
    \E a \in ListArgs :
        Effect([op |-> "list", args |-> a],
               list_notes(file, a.category, a.priority, a.status, a.show_content, now),
               now)

Search ==
    \E term \in SearchTerms : \E scope \in SearchScopes :
        Effect([op |-> "search", term |-> term, scope |-> scope],
               search_notes(file, term, scope, now), now)

ListTags ==
    \E c \in {[op |-> "list_tags"]} :
        Effect(c, list_tags(file, now), now)

\* The storage operations, called on their own
Load ==
    \E c \in {[op |-> "load"]} :
        LET r == load_notes(file, now)
        IN  Effect(c, Out(_ensure_file_exists(file),
                          IF r.ok THEN Loaded(r.val) ELSE Raised(r.exc), FALSE), now)

NextId ==
    \E c \in {[op |-> "next_id"]} :
        LET r == load_notes(file, now)
        IN  Effect(c, Out(_ensure_file_exists(file),
                          IF r.ok THEN NextIdIs(get_next_id(r.val)) ELSE Raised(r.exc),
                          FALSE), now)

AllTags ==
    \E c \in {[op |-> "all_tags"]} :
        LET r == load_notes(file, now)
        IN  Effect(c, Out(_ensure_file_exists(file),
                          IF r.ok THEN AllTagsAre(get_all_tags(r.val)) ELSE Raised(r.exc),
                          FALSE), now)

\* The caller has shown the text; the next command starts from the file alone
Return ==
    /\ call # NoCall
    /\ call' = NoCall
    /\ result' = NoResult
    /\ prev' = file
    /\ UNCHANGED <<file, now, left, inv>>

Next ==
    \/ Add \/ Edit \/ Archive \/ Delete \/ List \/ Search \/ ListTags
    \/ Load \/ NextId \/ AllTags
    \/ Return

\* The store starts empty: the backing file does not exist yet
Init ==
    /\ file = Absent
    /\ now = 1
    /\ left = MaxSaves
    /\ prev = file
    /\ call = NoCall
    /\ result = NoResult
    /\ inv = Alone

Spec == Init /\ [][Next]_vars

----------------------------------------------------------------------------
(* Any backing file: the file is the user's, and may hold anything.  The    *)
(* records below are well-formed ones (two sharing an id, one without the   *)
(* optional keys), ones without a required key, and ones whose category,    *)
(* priority or status is no value of its enumeration.                       *)

MaxFileLen == 2

RequiredKeys == {"id", "title", "content", "category", "priority", "status"}
EnumKeys == {"category", "priority", "status"}

Without(data, key) == [k \in DOMAIN data \ {key} |-> data[k]]

First ==
    to_dict(NoteInit(1, Ab, Bc, "OTHER", "MEDIUM", None, "ACTIVE", Some(1), Some(1), 1, 1))
Second ==
    to_dict(NoteInit(2, cD, Ab, "WORK", "HIGH", Some(<<cD>>), "ARCHIVED", Some(1), Some(1), 1, 1))
FirstAgain ==
    to_dict(NoteInit(1, cD, Empty, "IDEAS", "LOW", Some(<<Ab>>), "ACTIVE", Some(1), Some(1), 1, 1))
Bare == Without(Without(Without([First EXCEPT !.id = 3], "tags"), "created_at"), "updated_at")

WellFormedRecords == {First, Second, FirstAgain, Bare}
KeylessRecords == {Without(First, k) : k \in RequiredKeys}
UnrecognizedRecords ==
    {[First EXCEPT ![k] = bogus] : k \in EnumKeys}
    \cup {Without([First EXCEPT !.priority = <<"H", "I", "G", "H">>], "status")}

Records == WellFormedRecords \cup KeylessRecords \cup UnrecognizedRecords

Files ==
    {Absent, Garbage}
    \cup {Json(data) : data \in UNION {[1..n -> Records] : n \in 0..MaxFileLen}}

InitFile ==
    /\ file \in Files
    /\ now = 1
    /\ left = 1
    /\ prev = file
    /\ call = NoCall
    /\ result = NoResult
    /\ inv = Alone

SpecFile == InitFile /\ [][Next]_vars

----------------------------------------------------------------------------
(* Two invocations side by side on one file.  A command is no longer one    *)
(* step: its load_notes, its get_next_id (which loads again) and its        *)
(* save_notes are steps of their own, and the steps of the two invocations  *)
(* interleave in every order.                                               *)

\* A save that keeps the records of the file whose ids the notes lack
Written_merge(f, notes) ==
    Json(SelectSeq(f.data, LAMBDA d : \A i \in DOMAIN notes : notes[i].id # d.id)
         \o save_notes(notes).data)

\* open(filename, 'w') and json.dump: what the file held before is gone
Written(f, notes) == save_notes(notes)

\* Stores a single caller can have left behind: nothing, one note, two
\* notes, and the second note alone
StoreOne ==
    add_note(Absent, AddDefault.title, AddDefault.content, AddDefault.category,
             AddDefault.priority, AddDefault.tags, 1, 1, 1).file
StoreTwo ==
    add_note(StoreOne, AddTagged.title, AddTagged.content, AddTagged.category,
             AddTagged.priority, AddTagged.tags, 1, 1, 1).file
StoreSecond == delete_note(StoreTwo, 1, 1).file
RaceStores == {Absent, StoreOne, StoreTwo, StoreSecond}

\* The commands that are run side by side
RaceCalls ==
    {[op |-> "add", args |-> a] : a \in {AddDefault, AddTagged}}
    \cup {[op |-> "delete", id |-> id] : id \in 1..2}

\* An invocation about to start: what it is to do, its position, the notes
\* it holds, the file as its load_notes and its get_next_id found it, what
\* it returns once done, and the rank of its save_notes among the saves
\* (0: none yet)
Invocation(c) ==
    [call |-> c, pc |-> "load", notes |-> <<>>, seen |-> Absent, reseen |-> Absent,
     result |-> NoResult, nth |-> 0]

\* `notes = self.storage.load_notes()`, and for delete_note the loop that
\* looks for the note and removes it
RaceLoad ==
  \E p \in DOMAIN inv :
    /\ inv[p].pc = "load"
    /\ LET f1 == _ensure_file_exists(file)
           notes == load_notes(file, now).val
           c == inv[p].call
           i == FirstIndex(notes, c.id)
       IN  /\ file' = f1
           /\ inv' = [inv EXCEPT ![p] =
                 IF c.op = "add"
                 THEN [@ EXCEPT !.pc = "next_id", !.notes = notes, !.seen = f1]
                 ELSE IF i = 0
                 THEN [@ EXCEPT !.pc = "done", !.notes = notes, !.seen = f1,
                                !.result = NotFound(c.id)]
                 ELSE [@ EXCEPT !.pc = "save", !.notes = RemoveAt(notes, i), !.seen = f1,
                                !.result = Deleted(c.id, notes[i].title)]]
    /\ UNCHANGED <<now, left, prev, call, result>>

\* add_note from `id=self.storage.get_next_id()` to `notes.append(new_note)`
RaceNextId ==
  \E p \in DOMAIN inv :
    /\ inv[p].pc = "next_id"
    /\ \E t1 \in Readings(now) : \E t2 \in Readings(t1) :
          LET a == inv[p].call.args
              new_note ==
                  NoteInit(get_next_id(load_notes(file, now).val), a.title, a.content,
                           EnumOf(NoteCategory, Lower(a.category)).val,
                           EnumOf(NotePriority, Lower(a.priority)).val,
                           Some(IF Truthy(a.tags) THEN Val(a.tags) ELSE <<>>),
                           "ACTIVE", None, None, t1, t2)
          IN  /\ inv' = [inv EXCEPT ![p] =
                    [@ EXCEPT !.pc = "save", !.notes = AppendNote(@, new_note),
                              !.reseen = file,
                              !.result = Added(new_note.id, a.title)]]
              /\ now' = t2
    /\ UNCHANGED <<file, left, prev, call, result>>

\* `self.storage.save_notes(notes)` and the return of the confirmation
RaceSave ==
  \E p \in DOMAIN inv :
    /\ inv[p].pc = "save"
    /\ file' = Written(file, inv[p].notes)
    /\ inv' = [inv EXCEPT ![p] =
          [@ EXCEPT !.pc = "done",
                    !.nth = 1 + Cardinality({q \in DOMAIN inv : inv[q].nth > 0})]]
    /\ UNCHANGED <<now, left, prev, call, result>>

NextRace == RaceLoad \/ RaceNextId \/ RaceSave

InitRace ==
    /\ file \in RaceStores
    /\ now = 1
    /\ left = 0
    /\ prev = file
    /\ call = NoCall
    /\ result = NoResult
    /\ \E c1, c2 \in RaceCalls : inv = <<Invocation(c1), Invocation(c2)>>

SpecRace == InitRace /\ [][NextRace]_vars

----------------------------------------------------------------------------
(* Properties.  `prev` is the file before the last call, `call` the call,   *)
(* `result` its returned text and `file` the file it left.                  *)

\* The ids of a collection
IdsOf(data) == {data[i].id : i \in DOMAIN data}

\* C1: in every state reachable from the empty store by Add, Edit, Archive
\* and Delete calls issued one at a time, no two notes of the persisted
\* collection have the same id.
C1_UniqueIds ==
    \A i, j \in DOMAIN file.data : i # j => file.data[i].id # file.data[j].id

\* An Add has just succeeded on a store that already held two notes.
C1_Witness ==
    /\ call.op = "add"
    /\ result.kind = "added"
    /\ Len(prev.data) = 2

\* C2: every successful Add gives the new note an id one greater than the
\* maximum id persisted immediately before it, or 1 if the collection was
\* empty, and appends the note at the end of the collection.
C2_AddNextIdAtEnd ==
    (call.op = "add" /\ result.kind = "added") =>
        LET old == prev.data
            new == file.data
            id == new[Len(new)].id
        IN  /\ Len(new) = Len(old) + 1
            /\ SubSeq(new, 1, Len(old)) = old
            /\ result.id = id
            /\ IF old = <<>> THEN id = 1
               ELSE /\ \A i \in DOMAIN old : old[i].id < id
                    /\ \E i \in DOMAIN old : old[i].id = id - 1

\* An Add has just succeeded on a store whose only note had been archived.
C2_Witness ==
    /\ call.op = "add"
    /\ result.kind = "added"
    /\ Len(prev.data) = 1
    /\ prev.data[1].status = NoteStatus["ARCHIVED"]
    /\ file.data[2].id = 2

\* The seven operations of the command layer
Commands == {"add", "list", "search", "delete", "archive", "edit", "list_tags"}

\* C3: whatever the backing file holds (absent, well-formed, not parsable,
\* a record without a required key, a record with an unrecognized category,
\* priority or status) and whatever the arguments, each of the seven
\* commands returns a text and raises nothing.
C3_NeverRaises ==
    call.op \in Commands => ~result.raised

\* A record that from_structured rejects, in the claim's words: a required
\* key is absent, or category, priority or status is no enumeration value
EnumFor(key) ==
    CASE key = "category" -> NoteCategory
      [] key = "priority" -> NotePriority
      [] key = "status" -> NoteStatus

Malformed(data) ==
    \/ RequiredKeys \ DOMAIN data # {}
    \/ \E k \in EnumKeys \cap DOMAIN data : ~IsMember(EnumFor(k), data[k])

\* C4: load_all returns the empty sequence, without failing, whenever the
\* file cannot be parsed or at least one record is malformed (a required key
\* absent, or an unrecognized category, priority or status), and returns all
\* notes in file order when every record is well-formed.
C4_LoadAllLenient ==
    call.op = "load" =>
        /\ ~result.raised
        /\ (prev.kind = "garbage" \/ \E i \in DOMAIN prev.data : Malformed(prev.data[i]))
               => result.notes = <<>>
        /\ (prev.kind # "garbage" /\ \A i \in DOMAIN prev.data : ~Malformed(prev.data[i]))
               => /\ Len(result.notes) = Len(prev.data)
                  /\ \A i \in DOMAIN prev.data :
                        \A k \in DOMAIN prev.data[i] : to_dict(result.notes[i])[k] = prev.data[i][k]

\* A category (priority) argument that is no member of its enumeration,
\* compared case-insensitively
NoCategory(value) == ~IsMember(NoteCategory, Lower(value))
NoPriority(value) == ~IsMember(NotePriority, Lower(value))

\* C5: an Add whose category or priority is not a member of its enumeration,
\* and an Edit of an existing note whose supplied category or priority is
\* not a member, returns a validation error message and leaves the persisted
\* collection exactly as it was.
C5_InvalidValueNoWrite ==
    LET a == call.args
        bad_add ==
            /\ call.op = "add"
            /\ NoCategory(a.category) \/ NoPriority(a.priority)
        bad_edit ==
            /\ call.op = "edit"
            /\ call.id \in IdsOf(prev.data)
            /\ \/ a.category # None /\ NoCategory(Val(a.category))
               \/ a.priority # None /\ NoPriority(Val(a.priority))
    IN  (bad_add \/ bad_edit) =>
            /\ result.kind \in {"bad_category", "bad_priority"}
            /\ file.data = prev.data

\* C6: Delete, Archive and Edit called with an id that no note of the
\* persisted collection has return the not-found message and leave the
\* persisted collection exactly as it was.
C6_NotFoundNoWrite ==
    (call.op \in {"delete", "archive", "edit"} /\ call.id \notin IdsOf(prev.data)) =>
        /\ result = NotFound(call.id)
        /\ file.data = prev.data

\* An Edit that names an absent id and an unrecognized category, on a store
\* that holds notes, was answered with not-found.
C6_Witness ==
    /\ call.op = "edit"
    /\ call.id \notin IdsOf(prev.data)
    /\ Len(prev.data) = 2
    /\ call.args.category = Some(bogus)
    /\ result.kind = "not_found"

\* Edit arguments that are valid: a supplied category or priority is a
\* member of its enumeration
ValidEdit(a) ==
    /\ a.category # None => ~NoCategory(Val(a.category))
    /\ a.priority # None => ~NoPriority(Val(a.priority))

\* The keys an Edit with arguments a must leave alone
Untouched(a) ==
    {"id", "status", "created_at"}
    \cup {k \in {"title", "content", "category", "priority", "tags"} : a[k] = None}

\* Position of the note with that id in a collection of distinct ids
IndexOf(data, id) == CHOOSE i \in DOMAIN data : data[i].id = id

\* C7: an Edit of an existing note with valid arguments changes, in that
\* note, only the supplied fields and updated_at; its id, status and
\* created_at, every unsupplied field, every other note and the order of the
\* collection are unchanged.
C7_EditFrame ==
    (call.op = "edit" /\ call.id \in IdsOf(prev.data) /\ ValidEdit(call.args)) =>
        LET old == prev.data
            new == file.data
            i == IndexOf(old, call.id)
        IN  /\ result.kind = "updated"
            /\ Len(new) = Len(old)
            /\ \A j \in DOMAIN old : j # i => new[j] = old[j]
            /\ DOMAIN new[i] = DOMAIN old[i]
            /\ \A k \in Untouched(call.args) : new[i][k] = old[i][k]

\* An Edit with no field supplied was applied to a note that carries tags,
\* in a store of two notes.
C7_Witness ==
    /\ call.op = "edit"
    /\ call.args = EditNothing
    /\ result.kind = "updated"
    /\ Len(prev.data) = 2
    /\ prev.data[IndexOf(prev.data, call.id)].tags # <<>>

\* C8: Archive on an active note changes only that note's status (to
\* archived) and its updated_at, and saves; on an archived note it returns
\* the already-archived message and changes nothing, updated_at included.
\* Every other note and the order are unchanged in both cases.
C8_ArchiveFrame ==
    (call.op = "archive" /\ call.id \in IdsOf(prev.data)) =>
        LET old == prev.data
            new == file.data
            i == IndexOf(old, call.id)
        IN  /\ Len(new) = Len(old)
            /\ \A j \in DOMAIN old : j # i => new[j] = old[j]
            /\ IF old[i].status = NoteStatus["ACTIVE"]
               THEN /\ result = Archived(call.id, old[i].title)
                    /\ new[i].status = NoteStatus["ARCHIVED"]
                    /\ DOMAIN new[i] = DOMAIN old[i]
                    /\ \A k \in DOMAIN old[i] \ {"status", "updated_at"} :
                          new[i][k] = old[i][k]
               ELSE /\ result = AlreadyArchived(call.id)
                    /\ new = old
\* An Archive of a note already archived was answered with the
\* already-archived message, in a store of two notes.
C8_Witness ==
    /\ call.op = "archive"
    /\ result.kind = "already_archived"
    /\ Len(prev.data) = 2

\* The notes a file holds, as load_all returns them
NotesOf(f) == load_notes(f, now).val

\* C9: Delete(id) on a collection that contains the id removes exactly one
\* note, the first one with that id; the persisted collection afterwards is
\* the previous sequence with that element removed, all other notes keeping
\* their fields and their relative order.
C9_DeleteFirst ==
    (/\ call.op = "delete"
     /\ load_notes(prev, now).ok
     /\ \E i \in DOMAIN NotesOf(prev) : NotesOf(prev)[i].id = call.id) =>
        LET old == NotesOf(prev)
            new == NotesOf(file)
            i == CHOOSE i \in DOMAIN old :
                    /\ old[i].id = call.id
                    /\ \A j \in 1..(i - 1) : old[j].id # call.id
        IN  /\ result = Deleted(call.id, old[i].title)
            /\ load_notes(file, now).ok
            /\ Len(new) = Len(old) - 1
            /\ \A j \in 1..(i - 1) : new[j] = old[j]
            /\ \A j \in i..Len(new) : new[j] = old[j + 1]

\* A Delete was applied to a collection in which two notes had the id.
C9_Witness ==
    /\ call.op = "delete"
    /\ result.kind = "deleted"
    /\ Len(prev.data) = 2
    /\ prev.data[1].id = call.id
    /\ prev.data[2].id = call.id
    /\ prev.data[1] # prev.data[2]

\* The persisted status of the note an entry of a listing shows
StatusOfItem(item) == file.data[IndexOf(file.data, item.text.id)].status

\* Whether a persisted note passes the category and priority filters of a
\* List call (an absent filter passes every note)
PassesFilters(a, note) ==
    /\ Truthy(a.category) => note.category = Lower(Val(a.category))
    /\ Truthy(a.priority) => note.priority = Lower(Val(a.priority))

\* C10: after any sequence of Add, Edit, Archive and Delete calls, List
\* with status "archived" returns no active note, List with default
\* arguments returns no archived note, and List with the status filter
\* absent returns the notes of both statuses.
C10_ListStatus ==
    call.op = "list" =>
        LET a == call.args
            items == result.items
            passing == {i \in DOMAIN file.data : PassesFilters(a, file.data[i])}
        IN  /\ (/\ result.kind = "listing"
                /\ a.status # None
                /\ Lower(Val(a.status)) = NoteStatus["ARCHIVED"]) =>
                   \A k \in DOMAIN items :
                      /\ StatusOfItem(items[k]) = NoteStatus["ARCHIVED"]
                      /\ items[k].text.status_icon = StatusIcon("ARCHIVED")
            /\ (result.kind = "listing" /\ a = ListDefault) =>
                   \A k \in DOMAIN items :
                      /\ StatusOfItem(items[k]) = NoteStatus["ACTIVE"]
                      /\ items[k].text.status_icon = StatusIcon("ACTIVE")
            /\ (/\ a.status = None
                /\ ~(Truthy(a.category) /\ NoCategory(Val(a.category)))
                /\ ~(Truthy(a.priority) /\ NoPriority(Val(a.priority)))
                /\ passing # {}) =>
                   /\ result.kind = "listing"
                   /\ Len(items) = Cardinality(passing)
                   /\ {items[k].text.id : k \in DOMAIN items}
                         = {file.data[i].id : i \in passing}

\* A List with the status filter absent returned an active note and an
\* archived one.
C10_Witness ==
    /\ call.op = "list"
    /\ call.args.status = None
    /\ result.kind = "listing"
    /\ \E k, l \in DOMAIN result.items :
          /\ StatusOfItem(result.items[k]) = NoteStatus["ACTIVE"]
          /\ StatusOfItem(result.items[l]) = NoteStatus["ARCHIVED"]

\* Whether a List call supplies a filter value outside its enumeration
SuppliesInvalid(a) ==
    \/ a.category # None /\ NoCategory(Val(a.category))
    \/ a.priority # None /\ ~IsMember(NotePriority, Lower(Val(a.priority)))
    \/ a.status # None /\ ~IsMember(NoteStatus, Lower(Val(a.status)))

\* C11: List returns a validation error message whenever a supplied
\* category, priority or status filter value is not a member of its
\* enumeration, for every content of the store, the empty store included,
\* and whatever the other filters are.
C11_ListRejectsInvalid ==
    (call.op = "list" /\ SuppliesInvalid(call.args)) =>
        /\ result.kind \in {"bad_category", "bad_priority", "bad_status"}
        /\ file.data = prev.data

\* The term is a substring of the text, letter case set aside
InText(term, text) == Contains(Lower(text), Lower(term))

\* The notes Search(term, scope) is to return, as the claim words it
InScope(note, term, scope) ==
    \/ scope \in {"title", "all"} /\ InText(term, note.title)
    \/ scope \in {"content", "all"} /\ InText(term, note.content)
    \/ scope \in {"tags", "all"} /\ \E k \in DOMAIN note.tags : InText(term, note.tags[k])

\* The entries a Search returned (none under either empty-result message)
Hits == IF result.kind = "search_hits" THEN result.items ELSE <<>>

\* C12: Search(term, scope) returns exactly the notes for which scope is
\* title or all and the term is a substring of the title, or scope is content
\* or all and the term is a substring of the content, or scope is tags or all
\* and the term is a substring of some tag, all compared case-insensitively;
\* a note whose only match lies outside the requested scope is not returned.
C12_SearchExact ==
    call.op = "search" =>
        LET matching == {i \in DOMAIN file.data :
                            InScope(file.data[i], call.term, call.scope)}
        IN  /\ ~result.raised
            /\ Len(Hits) = Cardinality(matching)
            /\ {Hits[k].id : k \in DOMAIN Hits} = {file.data[i].id : i \in matching}
            /\ \A k \in DOMAIN Hits :
                  LET note == file.data[IndexOf(file.data, Hits[k].id)]
                  IN  Hits[k].title = note.title

\* A Search in the tags returned a note and left out another one whose title
\* holds the term, spelled in the other letter case.
C12_Witness ==
    /\ call.op = "search"
    /\ call.scope = "tags"
    /\ result.kind = "search_hits"
    /\ \E i \in DOMAIN file.data :
          /\ InText(call.term, file.data[i].title)
          /\ ~Contains(file.data[i].title, call.term)
          /\ \A k \in DOMAIN Hits : Hits[k].id # file.data[i].id

\* Whether no note of the store matches the Search call
NothingMatches ==
    \A i \in DOMAIN file.data : ~InScope(file.data[i], call.term, call.scope)

\* The empty-result messages of List (store empty, no notes matched) and of
\* ListTags (no tags)
OtherEmptyTexts == {NoNotes.text, NoMatch.text, NoTags.text}

\* C13 as stated: whenever Search has an empty match list, for every content
\* of the store including the empty store, it returns the
\* not-found-for-this-query message, and that message differs from the
\* empty-result messages of List and of ListTags.
C13_SearchNotFoundAlways ==
    (call.op = "search" /\ NothingMatches) =>
        /\ result = SearchNone(Lower(call.term))
        /\ result.text \notin OtherEmptyTexts

\* C13 amended: whenever Search has an empty match list on a non-empty
\* store it returns the not-found-for-this-query message, which differs from
\* the empty-result messages of List and of ListTags; on the empty store it
\* returns the store-is-empty message, the one List returns there.
C13_SearchNotFound ==
    (call.op = "search" /\ NothingMatches) =>
        IF file.data = <<>>
        THEN result = NoNotes
        ELSE /\ result = SearchNone(Lower(call.term))
             /\ result.text \notin OtherEmptyTexts

\* A Search on a store that holds a note matched nothing.
C13_Witness ==
    /\ call.op = "search"
    /\ NothingMatches
    /\ file.data # <<>>
    /\ result.kind = "search_none"

\* The ids of the notes a List or a Search returned, in the order returned
ReturnedIds ==
    IF call.op = "list" /\ result.kind = "listing"
    THEN [k \in DOMAIN result.items |-> result.items[k].text.id]
    ELSE IF call.op = "search" /\ result.kind = "search_hits"
    THEN [k \in DOMAIN result.items |-> result.items[k].id]
    ELSE <<>>

\* C14: the notes returned by List and by Search are ordered by created_at
\* descending, and notes with equal created_at appear in the order they have
\* in the persisted collection (stable sort).
C14_NewestFirstStable ==
    \A k, l \in DOMAIN ReturnedIds :
        k < l =>
            LET i == IndexOf(file.data, ReturnedIds[k])
                j == IndexOf(file.data, ReturnedIds[l])
            IN  /\ file.data[i].created_at >= file.data[j].created_at
                /\ file.data[i].created_at = file.data[j].created_at => i < j

\* A List returned three notes: the newest one first although it is the last
\* of the collection, then two notes of equal created_at in collection order.
C14_Witness ==
    /\ call.op = "list"
    /\ Len(ReturnedIds) = 3
    /\ LET first == file.data[IndexOf(file.data, ReturnedIds[1])]
           second == file.data[IndexOf(file.data, ReturnedIds[2])]
           third == file.data[IndexOf(file.data, ReturnedIds[3])]
       IN  /\ first.created_at > second.created_at
           /\ second.created_at = third.created_at
           /\ IndexOf(file.data, ReturnedIds[1]) = 3


\* A reading of the clock later than every timestamp of the run
Later == MaxClock + 1

\* C15: for every well-formed collection (notes with valid enumeration
\* values and non-empty timestamps), load_all immediately after save_all
\* returns a sequence equal to the saved one, note by note and field by
\* field, in the same order; saving the loaded sequence again leaves the file
\* content unchanged.
C15_SaveLoadRoundTrip ==
    (call.op = "load" /\ result.kind = "loaded") =>
        LET notes == result.notes
            saved == save_notes(notes)
            again == load_notes(saved, Later)
        IN  /\ again.ok
            /\ Len(again.val) = Len(notes)
            /\ \A i \in DOMAIN notes : again.val[i] = notes[i]
            /\ save_notes(again.val) = saved

\* The collection saved and loaded again holds two different notes, one
\* of them archived and tagged, and differs from what the file held before
\* (a record of the file had no tags and no timestamps).
C15_Witness ==
    /\ call.op = "load"
    /\ result.kind = "loaded"
    /\ Len(result.notes) = 2
    /\ result.notes[1] # result.notes[2]
    /\ \E i \in 1..2 : result.notes[i].tags # <<>> /\ result.notes[i].status = "ARCHIVED"
    /\ save_notes(result.notes) # prev

\* C16: with a clock that never goes backwards, every note of the persisted
\* collection satisfies created_at <= updated_at after any sequence of Add,
\* Edit, Archive and Delete calls, and a note's created_at keeps the value
\* set at its creation for as long as the note exists.
C16_CreatedBeforeUpdated ==
    /\ \A i \in DOMAIN file.data :
          /\ file.data[i].created_at <= file.data[i].updated_at
          /\ file.data[i].updated_at <= now
    /\ \A i \in DOMAIN prev.data : \A j \in DOMAIN file.data :
          file.data[j].id = prev.data[i].id =>
              file.data[j].created_at = prev.data[i].created_at

\* An Edit or an Archive, made at a later reading of the clock than the
\* note's creation, was saved.
C16_Witness ==
    /\ call.op \in {"edit", "archive"}
    /\ result.kind \in {"updated", "archived"}
    /\ LET old == prev.data[IndexOf(prev.data, call.id)]
           new == file.data[IndexOf(file.data, call.id)]
       IN  /\ new.updated_at > old.updated_at
           /\ new.created_at < new.updated_at

\* C17: every note of the persisted collection has a non-empty title after
\* any sequence of Add and Edit calls, whatever title arguments (the empty
\* string included) those calls receive.
C17_TitleNonEmpty ==
    \A i \in DOMAIN file.data : file.data[i].title # Empty

\* The tags that occur in the notes of the persisted collection
TagsInUse ==
    UNION {{file.data[i].tags[k] : k \in DOMAIN file.data[i].tags} : i \in DOMAIN file.data}

\* The notes whose tag sequence contains the tag
Carrying(tag) ==
    {i \in DOMAIN file.data : \E k \in DOMAIN file.data[i].tags : file.data[i].tags[k] = tag}

\* C18: ListTags returns one line per distinct tag occurring in any note of
\* the collection, in lexicographic order with no tag repeated, and the count
\* on each line equals the number of notes whose tag sequence contains that
\* exact tag (a note that carries the tag several times counts once); it
\* returns the no-tags message exactly when no note has a tag.
C18_TagLines ==
    call.op = "list_tags" =>
        IF TagsInUse = {} THEN result = NoTags
        ELSE /\ result.kind = "tags"
             /\ Len(result.items) = Cardinality(TagsInUse)
             /\ {result.items[k].tag : k \in DOMAIN result.items} = TagsInUse
             /\ \A k, l \in DOMAIN result.items :
                   k < l => StrLess(result.items[k].tag, result.items[l].tag)
             /\ \A k \in DOMAIN result.items :
                   result.items[k].count = Cardinality(Carrying(result.items[k].tag))

\* ListTags returned two lines, one for a tag that two notes carry and one
\* for a tag that a single note carries twice, counted once.
C18_Witness ==
    /\ call.op = "list_tags"
    /\ result.kind = "tags"
    /\ Len(result.items) = 2
    /\ result.items[2].count = 2
    /\ result.items[1].count = 1
    /\ \E i \in DOMAIN file.data : \E k, l \in DOMAIN file.data[i].tags :
          k # l /\ file.data[i].tags[k] = result.items[1].tag /\ file.data[i].tags[l] = result.items[1].tag

\* Whether every invocation has returned
AllDone == \A p \in DOMAIN inv : inv[p].pc = "done"

\* What a command alone makes of the collection `snap`: an Add appends one
\* note made from its arguments, a Delete removes the first note of its id
EffectAlone(c, snap, data) ==
    IF c.op = "add"
    THEN /\ Len(data) = Len(snap) + 1
         /\ \A i \in DOMAIN snap : data[i] = snap[i]
         /\ data[Len(data)].title = c.args.title
         /\ data[Len(data)].category = Lower(c.args.category)
         /\ data[Len(data)].tags = (IF Truthy(c.args.tags) THEN Val(c.args.tags) ELSE <<>>)
    ELSE data = RemoveAt(snap, FirstIndex(snap, c.id))

\* C19: when two command invocations interleave at the granularity of their
\* load and save steps, a lost update is reachable: both invocations read the
\* same snapshot, both return a success confirmation, and the final persisted
\* collection contains the effect of the later save only (for two Adds on an
\* empty store: two confirmations, one note persisted).
C19_LostUpdate ==
    \A p, q \in DOMAIN inv :
        (/\ AllDone
         /\ inv[q].nth = 1
         /\ inv[p].nth = 2
         /\ inv[p].seen = inv[q].seen) =>
            /\ inv[p].result.kind \in {"added", "deleted"}
            /\ inv[q].result.kind \in {"added", "deleted"}
            /\ EffectAlone(inv[p].call, inv[p].seen.data, file.data)

\* Two Adds on the empty store read the same snapshot and both returned
\* their confirmation; one note is persisted.
C19_Witness ==
    /\ prev = Absent
    /\ AllDone
    /\ \A p \in DOMAIN inv : inv[p].call.op = "add" /\ inv[p].result.kind = "added"
    /\ inv[1].seen = inv[2].seen
    /\ inv[1].call # inv[2].call
    /\ Len(file.data) = 1

\* Whether no two notes of the file have the same id
Distinct(data) == \A i, j \in DOMAIN data : data[i].id = data[j].id => i = j

\* C20 as stated: id uniqueness of the persisted collection also holds when
\* two command invocations interleave at the granularity of load, next_id
\* and save steps: no interleaving of an Add with a Delete or another Add
\* writes a collection in which two notes have the same id.
C20_RaceUniqueIds == Distinct(file.data)

\* C20 amended: no interleaving of an Add with another Add writes a
\* collection in which two notes have the same id; an Add interleaved with a
\* Delete writes one only when the Delete removed the note with the largest
\* id between the Add's load and the load inside its next_id.
C20_RaceDuplicateOnlyByDelete ==
    /\ (\A p \in DOMAIN inv : inv[p].call.op = "add") => Distinct(file.data)
    /\ ~Distinct(file.data) =>
          \E p, q \in DOMAIN inv :
              /\ inv[p].call.op = "add"
              /\ inv[q].call.op = "delete"
              /\ inv[p].pc = "done"
              /\ inv[q].nth = 1
              /\ inv[p].reseen = Written(inv[p].seen, inv[q].notes)
              /\ inv[q].call.id = Max({inv[p].seen.data[i].id : i \in DOMAIN inv[p].seen.data})

\* Two Adds ran to their end, the second one's next_id having loaded the
\* collection the first one had saved, and the ids of the file are distinct.
C20_Witness ==
    /\ AllDone
    /\ \A p \in DOMAIN inv : inv[p].call.op = "add"
    /\ \E p \in DOMAIN inv : inv[p].reseen # inv[p].seen
    /\ file.data # <<>>
    /\ Distinct(file.data)

\* The operations that only read
Queries == {"list", "search", "list_tags", "next_id", "all_tags"}

\* C21: List, Search, ListTags, next_id and all_tags never change the
\* persisted collection: after any of them the file holds the same notes,
\* with the same fields and in the same order, as before (List and Search
\* sort only their in-memory result), so two next_id calls with no save
\* between them return the same value.
C21_QueriesReadOnly ==
    call.op \in Queries =>
        /\ file.data = prev.data
        /\ prev.kind # "absent" => file = prev
        /\ result.kind = "next_id" =>
              /\ load_notes(file, now).ok
              /\ result = NextIdIs(get_next_id(load_notes(file, now).val))

\* A List returned the notes in another order than the file holds them, the
\* last note of the file first.
C21_Witness ==
    /\ call.op = "list"
    /\ Len(ReturnedIds) = Len(file.data)
    /\ Len(file.data) >= 2
    /\ ReturnedIds[1] = file.data[Len(file.data)].id
    /\ ReturnedIds[1] # file.data[1].id
    /\ file = prev

\* The indexes of the notes of a collection that have the id
WithId(data, id) == {j \in DOMAIN data : data[j].id = id}

\* C22: the archived status is absorbing: once a note's status is archived,
\* no sequence of Add, Edit, Archive, List, Search or ListTags calls makes it
\* active again; the note stays archived until a Delete removes it, and every
\* note starts as active when Add creates it.
C22_ArchivedAbsorbing ==
    /\ \A i \in DOMAIN prev.data :
          prev.data[i].status = NoteStatus["ARCHIVED"] =>
              \/ /\ call.op = "delete"
                 /\ result.kind = "deleted"
                 /\ call.id = prev.data[i].id
                 /\ WithId(file.data, call.id) = {}
              \/ /\ WithId(file.data, prev.data[i].id) # {}
                 /\ \A j \in WithId(file.data, prev.data[i].id) :
                       /\ file.data[j].status = NoteStatus["ARCHIVED"]
                       /\ file.data[j].created_at = prev.data[i].created_at
    /\ (call.op = "add" /\ result.kind = "added") =>
          /\ WithId(prev.data, result.id) = {}
          /\ file.data[Len(file.data)].id = result.id
          /\ file.data[Len(file.data)].status = NoteStatus["ACTIVE"]

\* An Edit changed fields of an archived note, which is archived still.
C22_Witness ==
    /\ call.op = "edit"
    /\ result.kind = "updated"
    /\ LET old == prev.data[IndexOf(prev.data, call.id)]
           new == file.data[IndexOf(file.data, call.id)]
       IN  /\ old.status = NoteStatus["ARCHIVED"]
           /\ new.status = NoteStatus["ARCHIVED"]
           /\ new.title # old.title
====
